---- MODULE Spec2Model ----
(***************************************************************************)
(* Battleships (src/main.py): Dot, Ship, Board, User/Human/Ai and the     *)
(* Game loop, as a state machine.                                          *)
(*                                                                         *)
(* A Dot is the pair <<x, y>>.  A Ship is the record                       *)
(* [origin, size, orientation, wreck]; a Board is the record               *)
(* [size, unavailable_dots, used_dots, ships, hidden].                     *)
(* The board keeps the size the program uses (10); what is bounded is the  *)
(* set of coordinates the callers pass in: the low corner of the board and *)
(* its high edge.                                                          *)
(***************************************************************************)
EXTENDS Integers, Sequences, FiniteSets, TLC

VARIABLES board, call, own_board, last_target, turn, pc, move, printed, lone_ship, rb

---------------------------------------------------------------------------
(* Program constant and bounds *)

\* Board.__init__(size=10), Game._random_board(size=10); Board.size rejects < 10
BoardSize == 10

\* callers of the Board pass the axis values 0..Window-1, BoardSize-1, BoardSize
Window == 3
\* longest ship a caller places
MaxShipLen == 2
\* most ships placed on the stand-alone board
MaxShips == 2
\* most accepted shots on the stand-alone board
MaxShots == 2
\* most ships in a fleet a match starts with
MaxFleet == 2
\* most completed turns of a match
MaxTurns == 3

Axis == (0 .. (Window - 1)) \cup {BoardSize - 1, BoardSize}

\* the Dots callers of the Board pass as targets and origins
DotInputs == Axis \X Axis

\* the Dots the players of a match ask for: those with coordinates 0, 1 and
\* BoardSize-1, and one Dot past the board on x, on y and on both
MatchAxis == {0, 1, BoardSize - 1}
MatchDots ==
    (MatchAxis \X MatchAxis)
        \cup {<<BoardSize, 0>>, <<0, BoardSize>>, <<BoardSize, BoardSize>>}

---------------------------------------------------------------------------
(* Dot *)

\* Dot.__init__ with the x and y setters: ValueError unless both are >= 0
DotValid(x, y) == x >= 0 /\ y >= 0

---------------------------------------------------------------------------
(* Ship *)

\* Ship.__init__: wreck starts empty
Ship(origin, size, orientation) ==
    [origin |-> origin, size |-> size, orientation |-> orientation, wreck |-> {}]

\* Ship.dots: one Dot per i in range(size), along y when orientation is 1
\* Ship.dots with the two orientations exchanged
dots_transposed(ship) ==
    { IF ship.orientation = 1 THEN <<ship.origin[1] + i, ship.origin[2]>>
      ELSE <<ship.origin[1], ship.origin[2] + i>> : i \in 0 .. (ship.size - 1) }

dots(ship) ==
    { IF ship.orientation = 1
        THEN <<ship.origin[1], ship.origin[2] + i>>
        ELSE <<ship.origin[1] + i, ship.origin[2]>> : i \in 0 .. (ship.size - 1) }

\* Ship.margins(size): the Dots within `size` of a ship Dot that Dot() accepts
margins(ship, size) ==
    { c \in UNION { ((d[1] - size) .. (d[1] + size)) \X ((d[2] - size) .. (d[2] + size))
                    : d \in dots(ship) } : DotValid(c[1], c[2]) }

\* Ship.health
health(ship) == Cardinality(dots(ship) \ ship.wreck)

\* Ship.isalive
isalive(ship) == health(ship) > 0

\* Ship.hit that reports the hit but does not record it in wreck
hit_forgets(ship, target) ==
    IF target \in dots(ship)
      THEN [ship |-> ship, result |-> TRUE]
      ELSE [ship |-> ship, result |-> FALSE]

\* Ship.hit: the ship afterwards and the value returned
\* Ship.hit that keeps only the last Dot hit in the wreck
hit_resets(s, target) ==
    IF target \in dots(s)
      THEN [ship |-> [s EXCEPT !.wreck = {target}], result |-> TRUE]
      ELSE [ship |-> s, result |-> FALSE]

\* Ship.hit that reports a Dot of the wreck as a miss
hit_once(s, target) ==
    IF target \in dots(s) /\ target \notin s.wreck
      THEN [ship |-> [s EXCEPT !.wreck = @ \cup {target}], result |-> TRUE]
      ELSE [ship |-> s, result |-> FALSE]

hit(ship, target) ==
    IF target \in dots(ship)
      THEN [ship |-> [ship EXCEPT !.wreck = @ \cup {target}], result |-> TRUE]
      ELSE [ship |-> ship, result |-> FALSE]

---------------------------------------------------------------------------
(* Board *)

\* Board.__init__
Board(size, hidden) ==
    [size |-> size, unavailable_dots |-> {}, used_dots |-> {}, ships |-> <<>>,
     hidden |-> hidden]

\* Board.out that takes x = size and y = size as inside
out_inclusive(b, dot) ==
    ~((0 <= dot[1] /\ dot[1] <= b.size) /\ (0 <= dot[2] /\ dot[2] <= b.size))

\* Board.out
out(b, dot) == ~((0 <= dot[1] /\ dot[1] < b.size) /\ (0 <= dot[2] /\ dot[2] < b.size))

\* Board.add_ship that tests the ship's Dots, not its margins, against
\* unavailable_dots
add_ship_dots_only(b, ship) ==
    IF b.unavailable_dots \cap dots(ship) # {}
      THEN [board |-> b, exc |-> "ShipDotsOverlap"]
    ELSE IF \E d \in dots(ship) : out(b, d)
      THEN [board |-> b, exc |-> "BoardOutException"]
    ELSE [board |-> [b EXCEPT !.ships = Append(@, ship),
                              !.unavailable_dots = @ \cup margins(ship, 1)],
          exc |-> "none"]

\* Board.add_ship that checks the bounds before the overlap
add_ship_bounds_first(b, ship) ==
    IF \E d \in dots(ship) : out(b, d)
      THEN [board |-> b, exc |-> "BoardOutException"]
    ELSE IF b.unavailable_dots \cap margins(ship, 1) # {}
      THEN [board |-> b, exc |-> "ShipDotsOverlap"]
    ELSE [board |-> [b EXCEPT !.ships = Append(@, ship),
                              !.unavailable_dots = @ \cup margins(ship, 1)],
          exc |-> "none"]

\* Board.add_ship: the board afterwards and the exception raised ("none" if none)
add_ship(b, ship) ==
    IF b.unavailable_dots \cap margins(ship, 1) # {}
      THEN [board |-> b, exc |-> "ShipDotsOverlap"]
    ELSE IF \E d \in dots(ship) : out(b, d)
      THEN [board |-> b, exc |-> "BoardOutException"]
    ELSE [board |-> [b EXCEPT !.ships = Append(@, ship),
                              !.unavailable_dots = @ \cup margins(ship, 1)],
          exc |-> "none"]

\* Board.live_ships
live_ships(b) == Cardinality({ i \in 1 .. Len(b.ships) : isalive(b.ships[i]) })

\* the loop of Board.shot: ship.hit(target) on every ship in list order, `result`
\* overwritten each time
RECURSIVE ShotLoop(_, _, _, _)
ShotLoop(ships, target, i, result) ==
    IF i > Len(ships)
      THEN [ships |-> ships, result |-> result]
      ELSE LET h == hit(ships[i], target)
           IN  ShotLoop([ships EXCEPT ![i] = h.ship], target, i + 1, h.result)

\* Board.shot without the used_dots check
shot_again(b, target) ==
    IF out(b, target)
      THEN [board |-> b, exc |-> "BoardOutException", result |-> FALSE]
    ELSE LET l == ShotLoop(b.ships, target, 1, FALSE)
         IN  [board |-> [b EXCEPT !.ships = l.ships, !.used_dots = @ \cup {target}],
              exc |-> "none", result |-> l.result]

\* Board.shot: the board afterwards, the exception raised and the value returned
\* Board.shot that does not add the target to used_dots
shot_unrecorded(b, target) ==
    IF out(b, target)
      THEN [board |-> b, exc |-> "BoardOutException", result |-> FALSE]
    ELSE IF target \in b.used_dots
      THEN [board |-> b, exc |-> "DotAlreadyUsed", result |-> FALSE]
    ELSE LET l == ShotLoop(b.ships, target, 1, FALSE)
         IN [board |-> [b EXCEPT !.ships = l.ships], exc |-> "none", result |-> l.result]

\* Board.shot without the bounds check
shot_unbounded(b, target) ==
    IF target \in b.used_dots
      THEN [board |-> b, exc |-> "DotAlreadyUsed", result |-> FALSE]
    ELSE LET l == ShotLoop(b.ships, target, 1, FALSE)
         IN [board |-> [b EXCEPT !.ships = l.ships, !.used_dots = @ \cup {target}],
             exc |-> "none", result |-> l.result]

shot(b, target) ==
    IF out(b, target)
      THEN [board |-> b, exc |-> "BoardOutException", result |-> FALSE]
    ELSE IF target \in b.used_dots
      THEN [board |-> b, exc |-> "DotAlreadyUsed", result |-> FALSE]
    ELSE LET l == ShotLoop(b.ships, target, 1, FALSE)
         IN  [board |-> [b EXCEPT !.ships = l.ships, !.used_dots = @ \cup {target}],
              exc |-> "none", result |-> l.result]

---------------------------------------------------------------------------
(* The Board interface driven by an arbitrary caller: any sequence of     *)
(* add_ship calls on a new board (Spec), and any sequence of shot calls   *)
(* on a board with its fleet placed (ShotSpec).  `call` is the last call  *)
(* made: its argument, the exception it raised and the value it returned. *)

\* the origins of the ships callers place: the low corner of the board and the
\* Dot of the opposite corner (Game._random_board draws randint(0, size-1) twice)
Origins ==
    ((0 .. (Window - 1)) \X (0 .. (Window - 1)))
        \cup {<<BoardSize - 1, BoardSize - 1>>}

\* the ships callers place: the shortest and the longest, in both orientations
ShipInputs == { Ship(o, n, r) : o \in Origins, n \in {1, MaxShipLen}, r \in {0, 1} }

NoShip == [origin |-> <<0, 0>>, size |-> 0, orientation |-> 0, wreck |-> {}]
\* None, for a Dot
NoDot == <<>>

NoCall ==
    [op |-> "none", ship |-> NoShip, target |-> NoDot, exc |-> "none", result |-> FALSE]
NoMove == [player |-> "none", target |-> NoDot, exc |-> "none", result |-> FALSE]

Players == {"human", "ai"}

\* Game._random_board is not running
NoBuild == [t |-> 0, counter |-> 0, pc |-> "idle"]

\* the match is not running
MatchIdle ==
    /\ own_board = [p \in Players |-> Board(BoardSize, p = "ai")]
    /\ last_target = [p \in Players |-> NoDot]
    /\ turn = 0
    /\ pc = "idle"
    /\ move = NoMove
    /\ printed = ""

Init ==
    /\ board = Board(BoardSize, FALSE)
    /\ call = NoCall
    /\ MatchIdle
    /\ lone_ship = NoShip
    /\ rb = NoBuild

AddShip(ship) ==
    /\ Len(board.ships) < MaxShips
    /\ \E r \in {add_ship(board, ship)} :
          /\ board' = r.board
          /\ call' = [op |-> "add_ship", ship |-> ship, target |-> NoDot,
                      exc |-> r.exc, result |-> FALSE]
    /\ UNCHANGED <<own_board, last_target, turn, pc, move, printed, lone_ship, rb>>

Shot(target) ==
    /\ Cardinality(board.used_dots) < MaxShots
    /\ \E r \in {shot(board, target)} :
          /\ board' = r.board
          /\ call' = [op |-> "shot", ship |-> NoShip, target |-> target,
                      exc |-> r.exc, result |-> r.result]
    /\ UNCHANGED <<own_board, last_target, turn, pc, move, printed, lone_ship, rb>>

Next == \E ship \in ShipInputs : AddShip(ship)

vars == <<board, call, own_board, last_target, turn, pc, move, printed, lone_ship, rb>>

Spec == Init /\ [][Next]_vars

---------------------------------------------------------------------------
(* The match: Game.__init__ binds the two players to the two boards, and  *)
(* Game.loop alternates User.move between them.  `move` is the last       *)
(* attempt of a move (the Dot asked, the exception of the shot, its       *)
(* result); `printed` is the last line printed among 'Target outside      *)
(* board', 'Target already used', 'AI Win' and 'Human Win', "" once the   *)
(* console is cleared for the next iteration.                              *)

\* Game.__init__: each player's opponent_board is the other player's own_board
opponent(p) == IF p = "human" THEN "ai" ELSE "human"

\* Human.ask: any Dot that Dot() accepts (input x y gives Dot(x-1, y-1))
HumanAsk == { d \in MatchDots : DotValid(d[1], d[2]) }

\* Ai.ask: Dot(randint(0, size), randint(0, size)) of its own board's size
AiAsk(b) == { d \in MatchDots : d[1] \in 0 .. b.size /\ d[2] \in 0 .. b.size }

\* the end of an iteration without either check
Announce_never(boards) == ""

\* the end of an iteration with the two messages exchanged
Announce_swapped(boards) ==
    IF live_ships(boards["human"]) = 0 THEN "Human Win"
    ELSE IF live_ships(boards["ai"]) = 0 THEN "AI Win"
    ELSE ""

\* the end of an iteration without the check of the AI's board
Announce_human_only(boards) ==
    IF live_ships(boards["human"]) = 0 THEN "AI Win" ELSE ""

\* the end of an iteration of Game.loop: the message printed, "" if none
Announce(boards) ==
    IF live_ships(boards["human"]) = 0 THEN "AI Win"
    ELSE IF live_ships(boards["ai"]) = 0 THEN "Human Win"
    ELSE ""

\* User.move that records last_target before the shot is accepted
Attempt_records_first(p, target) ==
    /\ pc = "loop"
    /\ turn < MaxTurns
    /\ LET r == shot(own_board[opponent(p)], target)
       IN  /\ move' = [player |-> p, target |-> target, exc |-> r.exc,
                       result |-> r.result]
           /\ last_target' = [last_target EXCEPT ![p] = target]
           /\ IF r.exc = "BoardOutException"
                THEN /\ printed' = "Target outside board"
                     /\ UNCHANGED <<own_board, turn, pc>>
              ELSE IF r.exc = "DotAlreadyUsed"
                THEN /\ printed' = "Target already used"
                     /\ UNCHANGED <<own_board, turn, pc>>
              ELSE LET boards == [own_board EXCEPT ![opponent(p)] = r.board]
                   IN  /\ own_board' = boards
                       /\ turn' = turn + 1
                       /\ printed' = Announce(boards)
                       /\ pc' = IF Announce(boards) = "" THEN "loop" ELSE "done"
    /\ UNCHANGED <<board, call, lone_ship, rb>>

\* one attempt of User.move by player p inside an iteration of Game.loop: the
\* target asked, the shot at the opponent's board, and either the retry
\* (continue) or the rest of the iteration: last_target, turn += 1, the checks
Try(p, target) ==
    /\ pc = "loop"
    /\ LET r == shot(own_board[opponent(p)], target)
       IN  /\ move' = [player |-> p, target |-> target, exc |-> r.exc,
                       result |-> r.result]
           /\ IF r.exc = "BoardOutException"
                THEN /\ printed' = "Target outside board"
                     /\ UNCHANGED <<own_board, last_target, turn, pc>>
              ELSE IF r.exc = "DotAlreadyUsed"
                THEN /\ printed' = "Target already used"
                     /\ UNCHANGED <<own_board, last_target, turn, pc>>
              ELSE LET boards == [own_board EXCEPT ![opponent(p)] = r.board]
                   IN  /\ own_board' = boards
                       /\ last_target' = [last_target EXCEPT ![p] = target]
                       /\ turn' = turn + 1
                       /\ printed' = Announce(boards)
                       /\ pc' = IF Announce(boards) = "" THEN "loop" ELSE "done"
    /\ UNCHANGED <<board, call, lone_ship, rb>>

\* the same attempt, in a match cut off after MaxTurns completed turns
Attempt(p, target) ==
    /\ turn < MaxTurns
    /\ Try(p, target)

\* Game.loop that lets the human move on every turn
HumanMove_any_turn == \E target \in HumanAsk : Attempt("human", target)

\* Game.loop, turn even: self.human.move()
HumanMove ==
    /\ turn % 2 = 0
    /\ \E target \in HumanAsk : Attempt("human", target)

\* Game.loop, turn odd: self.ai.move()
AiMove ==
    /\ turn % 2 = 1
    /\ \E target \in AiAsk(own_board["ai"]) : Attempt("ai", target)

\* the ships the placed fleets are made of: Ship's default orientation, at the two
\* ends of the board's diagonal
FleetInputs ==
    { Ship(o, n, 1) : o \in {<<0, 0>>, <<BoardSize - 1, BoardSize - 1>>},
                      n \in 1 .. MaxShipLen }

\* the boards k add_ship calls (of `ships`, accepted or rejected) build from `from`
RECURSIVE Built(_, _, _)
Built(from, ships, k) ==
    IF k = 0 THEN from
    ELSE LET prev == Built(from, ships, k - 1)
         IN  prev \cup { add_ship(b, s).board : b \in prev, s \in ships }

Fleets(hidden) == Built({Board(BoardSize, hidden)}, FleetInputs, MaxFleet)

\* any sequence of shot calls on a board whose fleet is placed
ShotInit ==
    /\ board \in Fleets(FALSE)
    /\ call = NoCall
    /\ MatchIdle
    /\ lone_ship = NoShip
    /\ rb = NoBuild

ShotNext == \E target \in DotInputs : Shot(target)

ShotSpec == ShotInit /\ [][ShotNext]_vars

\* a Game after __init__ and greet(): two boards with their fleets placed
MatchStart ==
    /\ own_board \in [Players -> Fleets(FALSE) \cup Fleets(TRUE)]
    /\ own_board["human"].hidden = FALSE
    /\ own_board["ai"].hidden = TRUE
    /\ last_target = [p \in Players |-> NoDot]
    /\ turn = 0
    /\ pc = "loop"
    /\ move = NoMove
    /\ printed = ""
    /\ board = Board(BoardSize, FALSE)
    /\ call = NoCall
    /\ lone_ship = NoShip
    /\ rb = NoBuild

\* Game.__init__ leaves every fleet non-empty
MatchInit ==
    /\ MatchStart
    /\ \A p \in Players : Len(own_board[p].ships) > 0

MatchNext == HumanMove \/ AiMove

MatchSpec == MatchInit /\ [][MatchNext]_vars

\* a match one of whose fleets is empty from the start
DegenerateInit ==
    /\ MatchStart
    /\ \E p \in Players : Len(own_board[p].ships) = 0

\* the loop ends with its first iteration, the human's: the AI never moves
DegenerateNext == HumanMove

DegenerateSpec == DegenerateInit /\ [][DegenerateNext]_vars

---------------------------------------------------------------------------
(* Claims about Board.add_ship (Spec) and Board.shot (ShotSpec) *)

InBounds(d) == 0 <= d[1] /\ d[1] < BoardSize /\ 0 <= d[2] /\ d[2] < BoardSize

\* C1 (Spec): after any sequence of add_ship calls, accepted or rejected, every Dot of
\* every ship of the board lies in [0, size) on both axes, and the margins (size 1)
\* of two distinct ships of the board are disjoint, so that no two ships share a
\* Dot or touch.
C1_FleetInBoundsAndApart ==
    /\ \A i \in 1 .. Len(board.ships) : \A d \in dots(board.ships[i]) : InBounds(d)
    /\ \A i, k \in 1 .. Len(board.ships) :
          i # k =>
            /\ margins(board.ships[i], 1) \cap margins(board.ships[k], 1) = {}
            /\ \A d \in dots(board.ships[i]), e \in dots(board.ships[k]) :
                  \/ d[1] - e[1] > 1 \/ e[1] - d[1] > 1
                  \/ d[2] - e[2] > 1 \/ e[2] - d[2] > 1

\* two ships stand on the board, the second placed after a first
C1_Witness ==
    /\ Len(board.ships) = 2
    /\ call.op = "add_ship"
    /\ call.exc = "none"

\* C2 (ShotSpec): an accepted shot returns TRUE if and only if some ship of the board occupies
\* the target (the last ship's result equals the OR over all ships).
C2_ShotReturnsAnyHit ==
    (call.op = "shot" /\ call.exc = "none") =>
        (call.result <=> \E i \in 1 .. Len(board.ships) :
                              call.target \in dots(board.ships[i]))

\* C3 (ShotSpec): a shot at a Dot already in used_dots raises DotAlreadyUsed and changes
\* nothing; an accepted shot adds exactly its target, a new Dot, to used_dots; a
\* rejected shot leaves used_dots as it was.
C3_UsedDotsCountAcceptedShots ==
    [][ call'.op = "shot" =>
          /\ call'.target \in board.used_dots =>
                (call'.exc = "DotAlreadyUsed" /\ board' = board)
          /\ call'.exc = "none" =>
                /\ board'.used_dots = board.used_dots \cup {call'.target}
                /\ Cardinality(board'.used_dots) = Cardinality(board.used_dots) + 1
          /\ call'.exc # "none" => board'.used_dots = board.used_dots ]_vars

\* a shot was rejected as already used
C3_Witness ==
    /\ call.op = "shot"
    /\ call.exc = "DotAlreadyUsed"
    /\ call.target \in board.used_dots

\* C4 (ShotSpec): a shot at a target outside [0, size) on either axis raises
\* BoardOutException, whatever used_dots holds, and leaves used_dots and every
\* ship's wreck unchanged; used_dots only ever holds Dots inside the board.
C4_ShotOutsideBoard ==
    [][ /\ (call'.op = "shot" /\ ~InBounds(call'.target)) =>
              /\ call'.exc = "BoardOutException"
              /\ board'.used_dots = board.used_dots
              /\ board'.ships = board.ships
        /\ (call'.op = "shot" /\ call'.exc = "BoardOutException") =>
              ~InBounds(call'.target)
        /\ \A d \in board'.used_dots : InBounds(d) ]_vars

\* a shot outside the board was rejected on a board already fired upon
C4_Witness ==
    /\ call.op = "shot"
    /\ call.exc = "BoardOutException"
    /\ ~InBounds(call.target)
    /\ board.used_dots # {}

\* C5 (Spec): add_ship checks overlap before bounds: a ship whose margins meet
\* unavailable_dots raises ShipDotsOverlap, also when it is out of bounds;
\* otherwise a ship with a Dot outside the board raises BoardOutException;
\* otherwise the ship is appended and unavailable_dots gains its margins.  A
\* rejected placement leaves the board unchanged.
C5_AddShipChecks ==
    [][ call'.op = "add_ship" =>
          IF margins(call'.ship, 1) \cap board.unavailable_dots # {}
            THEN call'.exc = "ShipDotsOverlap" /\ board' = board
          ELSE IF \E d \in dots(call'.ship) : ~InBounds(d)
            THEN call'.exc = "BoardOutException" /\ board' = board
          ELSE /\ call'.exc = "none"
               /\ board'.ships = Append(board.ships, call'.ship)
               /\ board'.unavailable_dots =
                     board.unavailable_dots \cup margins(call'.ship, 1)
               /\ board'.used_dots = board.used_dots ]_vars

\* a ship both overlapping and out of bounds was rejected as overlapping
C5_Witness ==
    /\ call.op = "add_ship"
    /\ call.exc = "ShipDotsOverlap"
    /\ \E d \in dots(call.ship) : ~InBounds(d)
    /\ Len(board.ships) > 0

\* C6 (ShotSpec): a ship is alive exactly while some Dot of it is not in its wreck; an
\* accepted shot that gives a ship its last missing hit lowers live_ships by
\* exactly one, and any other accepted shot leaves live_ships as it was.
C6_SunkOnLastHit ==
    [][ /\ \A i \in 1 .. Len(board'.ships) :
              isalive(board'.ships[i]) <=>
                  ~(dots(board'.ships[i]) \subseteq board'.ships[i].wreck)
        /\ (call'.op = "shot" /\ call'.exc = "none") =>
              LET last == { i \in 1 .. Len(board.ships) :
                              dots(board.ships[i]) \ board.ships[i].wreck
                                  = {call'.target} }
              IN  /\ Cardinality(last) <= 1
                  /\ live_ships(board') = live_ships(board) - Cardinality(last)
                  /\ \A i \in last : isalive(board.ships[i]) /\ ~isalive(board'.ships[i])
                  /\ \A i \in (1 .. Len(board.ships)) \ last :
                        isalive(board'.ships[i]) <=> isalive(board.ships[i]) ]_vars

\* the longest ship was sunk by the shot just made, after an earlier hit
C6_Witness ==
    /\ call.op = "shot"
    /\ call.exc = "none"
    /\ \E i \in 1 .. Len(board.ships) :
          /\ board.ships[i].size = MaxShipLen
          /\ call.target \in board.ships[i].wreck
          /\ ~isalive(board.ships[i])
          /\ live_ships(board) = Len(board.ships) - 1

---------------------------------------------------------------------------
(* Claims about Game.loop and User.move *)

\* the player whose board player p fires upon
FiresUpon(p) == IF p = "human" THEN "ai" ELSE "human"

\* C7 (MatchSpec): the match is over exactly in the states in which a fleet has no
\* live ship; once over, no further turn is taken; "AI Win" is printed when the
\* human fleet has no live ship and "Human Win" when the AI fleet has none.
C7_MatchEndsAtZero ==
    LET h == live_ships(own_board["human"])
        a == live_ships(own_board["ai"])
    IN  /\ (pc = "done") <=> (h = 0 \/ a = 0)
        /\ pc = "done" => ~ENABLED MatchNext
        /\ pc = "done" => printed \in {"AI Win", "Human Win"}
        /\ pc = "loop" => printed \notin {"AI Win", "Human Win"}
        /\ printed = "AI Win" => h = 0
        /\ printed = "Human Win" => a = 0

\* the AI sank the human fleet on its turn
C7_Witness ==
    /\ pc = "done"
    /\ printed = "AI Win"
    /\ move.player = "ai"
    /\ live_ships(own_board["ai"]) > 0

\* C8 (DegenerateSpec): with a fleet empty from the start the loss is announced
\* before any turn: no move is attempted and no shot is applied to either board
\* before the announcement.
C8_LostBeforeAnyTurn ==
    printed \in {"AI Win", "Human Win"} =>
        /\ turn = 0
        /\ move = NoMove
        /\ \A p \in Players : own_board[p].used_dots = {}

\* C9 (MatchSpec): the human moves first and completed turns alternate: the
\* accepted shots on the AI's board number 0 or 1 more than those on the human's
\* board, and each completed turn is the human's when turn is even and the AI's
\* when turn is odd.
C9_TurnsAlternate ==
    [][ /\ Cardinality(own_board'["ai"].used_dots)
             - Cardinality(own_board'["human"].used_dots) \in {0, 1}
        /\ turn' # turn =>
              /\ turn' = turn + 1
              /\ move'.player = IF turn % 2 = 0 THEN "human" ELSE "ai"
              /\ move'.exc = "none"
              /\ Cardinality(own_board'[FiresUpon(move'.player)].used_dots)
                   = Cardinality(own_board[FiresUpon(move'.player)].used_dots) + 1
        /\ own_board' # own_board => turn' # turn ]_vars

\* human, AI and human again have completed a turn
C9_Witness ==
    /\ turn = 3
    /\ Cardinality(own_board["ai"].used_dots) = 2
    /\ Cardinality(own_board["human"].used_dots) = 1

\* C10 (MatchSpec): a completed move adds exactly its target to the opponent board's
\* used_dots, leaves the mover's own board unchanged and sets the mover's
\* last_target to that target; an attempt rejected with BoardOutException or
\* DotAlreadyUsed changes neither board nor any last_target and leaves the turn with
\* the same player; last_target is None or a Dot inside the board that is in the
\* opponent board's used_dots.
C10_MoveFrame ==
    [][ LET p == move'.player
            o == FiresUpon(p)
            t == move'.target
        IN  /\ move'.exc = "none" =>
                  /\ t \notin own_board[o].used_dots
                  /\ own_board'[o].used_dots = own_board[o].used_dots \cup {t}
                  /\ own_board'[p] = own_board[p]
                  /\ last_target'[p] = t
                  /\ last_target'[o] = last_target[o]
            /\ move'.exc # "none" =>
                  /\ move'.exc \in {"BoardOutException", "DotAlreadyUsed"}
                  /\ own_board' = own_board
                  /\ last_target' = last_target
                  /\ turn' = turn
                  /\ pc' = pc
            /\ \A q \in Players :
                  \/ last_target'[q] = NoDot
                  \/ /\ InBounds(last_target'[q])
                     /\ last_target'[q] \in own_board'[FiresUpon(q)].used_dots ]_vars

\* the AI completed a move after the human did: both players have a last_target
C10_Witness ==
    /\ move.player = "ai"
    /\ move.exc = "none"
    /\ last_target["ai"] = move.target
    /\ last_target["human"] # NoDot

---------------------------------------------------------------------------
(* A Ship on its own: Ship(origin, size, orientation), then Ship.hit calls *)

HitInit ==
    /\ lone_ship \in ShipInputs
    /\ board = Board(BoardSize, FALSE)
    /\ call = NoCall
    /\ MatchIdle
    /\ rb = NoBuild

\* ship.hit(target); call.ship keeps the Ship as it was before the call
Hit(target) ==
    /\ \E r \in {hit(lone_ship, target)} :
          /\ lone_ship' = r.ship
          /\ call' = [op |-> "hit", ship |-> lone_ship, target |-> target,
                      exc |-> "none", result |-> r.result]
    /\ UNCHANGED <<board, own_board, last_target, turn, pc, move, printed, rb>>

HitNext == \E target \in DotInputs : Hit(target)

HitSpec == HitInit /\ [][HitNext]_vars

\* C11: Ship.hit on a Dot of the ship reports a hit and leaves the Dot in
\* the wreck, a second hit on the same Dot reports a hit again and changes
\* neither the wreck nor the health; a hit on any other Dot reports a miss
\* and changes nothing; the wreck stays inside dots and the health is
\* |dots| - |wreck|, between 0 and the size of the ship.
C11_HitIdempotent ==
    [][ call'.op = "hit" =>
          /\ call'.ship = lone_ship
          /\ IF call'.target \in dots(lone_ship)
               THEN /\ call'.result
                    /\ lone_ship'.wreck = lone_ship.wreck \cup {call'.target}
                    /\ call'.target \in lone_ship.wreck =>
                          lone_ship' = lone_ship /\ health(lone_ship') = health(lone_ship)
               ELSE ~call'.result /\ lone_ship' = lone_ship
          /\ lone_ship'.wreck \subseteq dots(lone_ship')
          /\ health(lone_ship') = Cardinality(dots(lone_ship')) - Cardinality(lone_ship'.wreck)
          /\ health(lone_ship') \in 0 .. lone_ship'.size
      ]_vars

\* a second hit on a Dot already in the wreck has been reported as a hit
C11_Witness ==
    /\ call.op = "hit"
    /\ call.target \in call.ship.wreck
    /\ call.result
    /\ lone_ship = call.ship

\* C12: the Dots of a ship of length L at origin O are O.x+i, O.y for
\* i in 0..L-1 when it is horizontal (orientation 0) and O.x, O.y+i when it is
\* vertical (orientation 1): exactly L Dots, and the same set after any
\* number of hits.
C12_DotsOfShip ==
    /\ dots(lone_ship) =
          IF lone_ship.orientation = 0
            THEN { <<lone_ship.origin[1] + i, lone_ship.origin[2]>> :
                     i \in 0 .. (lone_ship.size - 1) }
            ELSE { <<lone_ship.origin[1], lone_ship.origin[2] + i>> :
                     i \in 0 .. (lone_ship.size - 1) }
    /\ Cardinality(dots(lone_ship)) = lone_ship.size
    /\ call.op = "hit" =>
          /\ dots(call.ship) = dots(lone_ship)
          /\ call.ship.origin = lone_ship.origin
          /\ call.ship.size = lone_ship.size
          /\ call.ship.orientation = lone_ship.orientation

\* a horizontal ship of the greatest length, hit everywhere
C12_Witness ==
    /\ lone_ship.orientation = 0
    /\ lone_ship.size = MaxShipLen
    /\ lone_ship.wreck = dots(lone_ship)
    /\ call.op = "hit"

---------------------------------------------------------------------------
(* Game._random_board and Game.random_board: the fleet drawn at random *)

\* ships_template of Game._random_board
ships_template(size) ==
    [i \in 1 .. (size \div 8) |-> 4] \o [i \in 1 .. (size \div 4) |-> 3]
      \o [i \in 1 .. (size \div 3) |-> 2] \o [i \in 1 .. ((size \div 2) - 1) |-> 1]

\* the value counter may not exceed: (size+1) ** 2
MaxAttempts(size) == (size + 1) * (size + 1)

\* the triples <<x, y, orientation>> the three randint calls of one attempt
\* return: ten of the 200 triples, chosen so that a whole fleet fits
RandomDraws ==
    { <<3, 6, 1>>, <<6, 7, 1>>, <<0, 7, 1>>, <<8, 3, 0>>, <<8, 0, 0>>,
      <<4, 0, 0>>, <<9, 6, 0>>, <<9, 9, 1>>, <<1, 3, 1>>, <<5, 3, 1>> }

\* one pass of the while loop that goes on to the next template when the
\* ship drawn is rejected
Placement_skips(x, y, orientation) ==
    /\ rb.pc = "placing"
    /\ IF rb.counter + 1 > MaxAttempts(board.size)
         THEN /\ rb' = [rb EXCEPT !.counter = @ + 1, !.pc = "abandoned"]
              /\ board' = board
         ELSE \E r \in {add_ship(board, Ship(<<x, y>>, ships_template(board.size)[rb.t],
                                             orientation))} :
                /\ board' = r.board
                /\ rb' = IF rb.t = Len(ships_template(board.size))
                           THEN [rb EXCEPT !.counter = @ + 1, !.t = @ + 1, !.pc = "returned"]
                         ELSE [rb EXCEPT !.counter = @ + 1, !.t = @ + 1]
    /\ UNCHANGED <<call, own_board, last_target, turn, pc, move, printed, lone_ship>>

\* one pass of the while loop, with a counter that starts again for every template
Placement_per_template(x, y, orientation) ==
    /\ rb.pc = "placing"
    /\ IF rb.counter + 1 > MaxAttempts(board.size)
         THEN /\ rb' = [rb EXCEPT !.counter = @ + 1, !.pc = "abandoned"]
              /\ board' = board
         ELSE \E r \in {add_ship(board, Ship(<<x, y>>, ships_template(board.size)[rb.t],
                                             orientation))} :
                /\ board' = r.board
                /\ rb' = IF r.exc # "none"
                           THEN [rb EXCEPT !.counter = @ + 1]
                         ELSE IF rb.t = Len(ships_template(board.size))
                           THEN [rb EXCEPT !.counter = 0, !.t = @ + 1, !.pc = "returned"]
                         ELSE [rb EXCEPT !.counter = 0, !.t = @ + 1]
    /\ UNCHANGED <<call, own_board, last_target, turn, pc, move, printed, lone_ship>>

\* one pass of the while loop of _random_board for the template rb.t:
\* counter += 1, give up (return None) when it exceeds (size+1) ** 2, else
\* draw a ship and try to add it; the next template follows a success and
\* the board is returned after the last one.  After giving up, board keeps
\* the local board that _random_board drops.
Placement(x, y, orientation) ==
    /\ rb.pc = "placing"
    /\ IF rb.counter + 1 > MaxAttempts(board.size)
         THEN /\ rb' = [rb EXCEPT !.counter = @ + 1, !.pc = "abandoned"]
              /\ board' = board
         ELSE \E r \in {add_ship(board, Ship(<<x, y>>, ships_template(board.size)[rb.t],
                                             orientation))} :
                /\ board' = r.board
                /\ rb' = IF r.exc # "none"
                           THEN [rb EXCEPT !.counter = @ + 1]
                         ELSE IF rb.t = Len(ships_template(board.size))
                           THEN [rb EXCEPT !.counter = @ + 1, !.t = @ + 1, !.pc = "returned"]
                         ELSE [rb EXCEPT !.counter = @ + 1, !.t = @ + 1]
    /\ UNCHANGED <<call, own_board, last_target, turn, pc, move, printed, lone_ship>>

\* Game.random_board: _random_board returned None, call it again
Redraw ==
    /\ rb.pc = "abandoned"
    /\ board' = Board(board.size, board.hidden)
    /\ rb' = [t |-> 1, counter |-> 0, pc |-> "placing"]
    /\ UNCHANGED <<call, own_board, last_target, turn, pc, move, printed, lone_ship>>

\* random_board() and random_board(hidden=True), as Game.__init__ calls them
RandomInit ==
    /\ board \in {Board(BoardSize, FALSE), Board(BoardSize, TRUE)}
    /\ rb = [t |-> 1, counter |-> 0, pc |-> "placing"]
    /\ call = NoCall
    /\ MatchIdle
    /\ lone_ship = NoShip

RandomNext ==
    \/ \E d \in RandomDraws : Placement(d[1], d[2], d[3])
    \/ Redraw

RandomSpec == RandomInit /\ [][RandomNext]_vars

\* C13 as stated: a construction is given up exactly when the attempts made
\* for a single template exceed (size+1)^2.  Every ship already on the board
\* took at least one attempt of an earlier template, so the attempts counted
\* for the template at hand are at most counter - Len(ships).
C13_BudgetPerTemplate ==
    rb.pc = "abandoned" =>
        rb.counter - Len(board.ships) > MaxAttempts(board.size)

\* C13 amended: every pass adds one to a counter that is never reset while
\* the construction lasts, whichever template is being placed, and the
\* construction is given up exactly when that counter exceeds (size+1)^2;
\* no ship is added by the pass that gives up.
C13_BudgetPerConstruction ==
    [][ rb.pc = "placing" =>
          /\ rb'.counter = rb.counter + 1
          /\ rb'.pc = "abandoned" <=> rb'.counter > MaxAttempts(board.size)
          /\ rb'.pc = "abandoned" => board' = board
      ]_vars

\* a construction given up with all ships but the last placed
C13_Witness ==
    /\ rb.pc = "abandoned"
    /\ Len(board.ships) = Len(ships_template(board.size)) - 1
    /\ rb.counter = MaxAttempts(board.size) + 1

---------------------------------------------------------------------------
\* C14: Ai.ask draws both coordinates from 0..size, so it can return a Dot
\* with a coordinate equal to the board size; Board.shot rejects every such
\* Dot with BoardOutException, no board, ship or last_target changes, and
\* the turn stays with the AI, which asks again.
C14_AiOffByOne ==
    [][ move'.player = "ai"
          /\ (move'.target[1] = own_board["ai"].size \/ move'.target[2] = own_board["ai"].size)
        => /\ move'.target \in AiAsk(own_board["ai"])
           /\ move'.exc = "BoardOutException"
           /\ own_board' = own_board
           /\ last_target' = last_target
           /\ turn' = turn
           /\ pc' = "loop"
           /\ turn' % 2 = 1
      ]_vars

\* the AI has just asked for the Dot <<size, size>> and was turned down
C14_Witness ==
    /\ move.player = "ai"
    /\ move.target = <<own_board["ai"].size, own_board["ai"].size>>
    /\ move.exc = "BoardOutException"
    /\ turn % 2 = 1
    /\ pc = "loop"

---------------------------------------------------------------------------
(* Board.display: the grid of markers d, before the rows are joined *)

\* the markers '_', U+2738 (fired upon), U+2610 (ship) and U+2612 (wreck)
EmptyMark == "_"
UsedMark == "*"
ShipMark == "O"
WreckMark == "X"

\* the marker of cell dot after the ships from the i-th on have been drawn
\* over the marker m: the second for loop of Board.display
RECURSIVE DrawShips(_, _, _, _)
DrawShips(b, dot, i, m) ==
    IF i > Len(b.ships) THEN m
    ELSE DrawShips(b, dot, i + 1,
             IF dot \notin dots(b.ships[i]) THEN m
             ELSE IF dot \in b.ships[i].wreck THEN WreckMark
             ELSE IF ~b.hidden THEN ShipMark
             ELSE m)

\* Board.display that draws every board as if it were not hidden
display_revealed(b) ==
    [dot \in (0 .. (b.size - 1)) \X (0 .. (b.size - 1)) |->
        DrawShips([b EXCEPT !.hidden = FALSE], dot, 1,
                  IF dot \in b.used_dots THEN UsedMark ELSE EmptyMark)]

\* d[dot.y][dot.x] for every cell of the board
display(b) ==
    [dot \in (0 .. (b.size - 1)) \X (0 .. (b.size - 1)) |->
        DrawShips(b, dot, 1, IF dot \in b.used_dots THEN UsedMark ELSE EmptyMark)]

occupied(b) == UNION { dots(b.ships[i]) : i \in 1 .. Len(b.ships) }
damaged(b) == UNION { b.ships[i].wreck : i \in 1 .. Len(b.ships) }

\* boards of both kinds, hidden or not, with their fleets placed
DisplayInit ==
    /\ board \in Fleets(FALSE) \cup Fleets(TRUE)
    /\ call = NoCall
    /\ MatchIdle
    /\ lone_ship = NoShip
    /\ rb = NoBuild

DisplayNext == \E target \in DotInputs : Shot(target)

\* any sequence of shots at a board that is then displayed
DisplaySpec == DisplayInit /\ [][DisplayNext]_vars

\* C15: a hidden board is displayed without any ship marker: a cell shows
\* the wreck marker iff it is in some ship's wreck, the fired-upon marker iff
\* it is in used_dots and not occupied, and the empty marker otherwise, so
\* the display is a function of used_dots and of the damaged cells alone; a
\* board that is not hidden shows the ship marker on occupied cells that
\* are not hit and the wreck marker on cells that are.
C15_HiddenDisplay ==
    \E g \in {display(board)} :
    \E occ \in {occupied(board)} :
    \E dmg \in {damaged(board)} :
        \A dot \in DOMAIN g :
            IF board.hidden
              THEN /\ g[dot] # ShipMark
                   /\ g[dot] = WreckMark <=> dot \in dmg
                   /\ g[dot] = UsedMark <=> dot \in board.used_dots \ occ
                   /\ g[dot] = IF dot \in dmg THEN WreckMark
                               ELSE IF dot \in board.used_dots THEN UsedMark
                               ELSE EmptyMark
              ELSE /\ dot \in occ \ dmg => g[dot] = ShipMark
                   /\ dot \in dmg => g[dot] = WreckMark

\* a hidden board with a ship hit once and not sunk, and a miss
C15_Witness ==
    /\ board.hidden
    /\ damaged(board) # {}
    /\ occupied(board) \ damaged(board) # {}
    /\ board.used_dots \ occupied(board) # {}

---------------------------------------------------------------------------
\* C16: on a board whose ships were all placed before the first shot, the
\* wreck of every ship is the part of its dots that is in used_dots, and a
\* ship that is alive has a Dot inside the board that has not been fired
\* upon, which Board.shot accepts.
C16_WreckIsDotsFiredUpon ==
    \A i \in 1 .. Len(board.ships) :
        /\ board.ships[i].wreck = dots(board.ships[i]) \cap board.used_dots
        /\ isalive(board.ships[i]) =>
              \E d \in dots(board.ships[i]) :
                  /\ InBounds(d)
                  /\ d \notin board.used_dots
                  /\ shot(board, d).exc = "none"

\* a ship hit once and still alive, next to a shot that missed every ship
C16_Witness ==
    /\ call.op = "shot"
    /\ \E i \in 1 .. Len(board.ships) :
          isalive(board.ships[i]) /\ board.ships[i].wreck # {}
    /\ board.used_dots \ occupied(board) # {}

---------------------------------------------------------------------------
(* The match played to its end, with every cell that holds a ship among   *)
(* the targets and every target asked for sooner or later                 *)

\* the players ask for the cells of the low 2 x FairWindow corner
FairWindow == 2
FairCells == {0, 1} \X (0 .. (FairWindow - 1))
\* and for one Dot outside the board
FairTargets == FairCells \cup {<<BoardSize, 0>>}

\* the fleets that lie in that corner
FairFleets(hidden) ==
    { b \in Fleets(hidden) : Len(b.ships) > 0 /\ occupied(b) \subseteq FairCells }

FairInit ==
    /\ own_board \in [Players -> FairFleets(FALSE) \cup FairFleets(TRUE)]
    /\ own_board["human"].hidden = FALSE
    /\ own_board["ai"].hidden = TRUE
    /\ last_target = [p \in Players |-> NoDot]
    /\ turn = 0
    /\ pc = "loop"
    /\ move = NoMove
    /\ printed = ""
    /\ board = Board(BoardSize, FALSE)
    /\ call = NoCall
    /\ lone_ship = NoShip
    /\ rb = NoBuild

\* player p, whose turn it is, asks for target
Select(p, target) ==
    /\ turn % 2 = (IF p = "human" THEN 0 ELSE 1)
    /\ Try(p, target)

FairHumanMove == \E target \in FairTargets \cap HumanAsk : Select("human", target)

FairAiMove == \E target \in FairTargets \cap AiAsk(own_board["ai"]) : Select("ai", target)

FairNext == FairHumanMove \/ FairAiMove

\* player p completes a turn: it asks for a cell that Board.shot accepts
Accepted(p) == \E target \in FairCells : Select(p, target) /\ turn' = turn + 1

\* fair target selection: a player who can ask for a cell not yet fired upon
\* does so in the end (so does, all the more, one who asks for every such cell)
FairMatchSpec ==
    /\ FairInit
    /\ [][FairNext]_vars
    /\ \A p \in Players : WF_vars(Accepted(p))

\* C17: under fair target selection a match between two non-empty fleets
\* ends with a win announced; every completed turn uses up one more cell
\* inside the board of one of the two boards, so there are at most
\* 2 * size * size completed turns, and while the loop runs the player to
\* move has a target that Board.shot accepts.
C17_MatchTerminates ==
    /\ [](/\ turn = Cardinality(own_board["human"].used_dots)
                    + Cardinality(own_board["ai"].used_dots)
          /\ \A p \in Players : \A d \in own_board[p].used_dots : InBounds(d)
          /\ turn <= 2 * BoardSize * BoardSize
          /\ pc = "loop" =>
                \E d \in FairCells :
                    shot(own_board[IF turn % 2 = 0 THEN "ai" ELSE "human"], d).exc = "none")
    /\ <>(pc = "done" /\ printed \in {"AI Win", "Human Win"})

\* the human has won with the last cell there was to ask for
C17_Witness ==
    /\ pc = "done"
    /\ printed = "Human Win"
    /\ own_board["ai"].used_dots = FairCells

---------------------------------------------------------------------------
\* C18: when both fleets start with a live ship, the two boards never have
\* zero live ships at once, a win is announced once and nothing follows it,
\* and the winner is the player whose accepted shot ended the last turn:
\* "Human Win" right after a human turn, "AI Win" right after an AI turn.
C18_OneWinner ==
    /\ [](~(live_ships(own_board["human"]) = 0 /\ live_ships(own_board["ai"]) = 0))
    /\ [][ /\ pc = "loop"
           /\ pc' = "done" <=> printed' \in {"AI Win", "Human Win"}
           /\ printed' = "AI Win" =>
                 /\ move'.player = "ai" /\ move'.exc = "none"
                 /\ turn' = turn + 1 /\ turn % 2 = 1
                 /\ live_ships(own_board'["human"]) = 0
           /\ printed' = "Human Win" =>
                 /\ move'.player = "human" /\ move'.exc = "none"
                 /\ turn' = turn + 1 /\ turn % 2 = 0
                 /\ live_ships(own_board'["ai"]) = 0
       ]_vars

\* the AI has won with its first shot
C18_Witness ==
    /\ pc = "done"
    /\ printed = "AI Win"
    /\ move.player = "ai"
    /\ live_ships(own_board["ai"]) > 0

---------------------------------------------------------------------------
\* C20: damage is never undone.  Over any sequence of shots on a board the
\* fleet stays the same, the wreck of every ship only grows, a ship that is
\* not alive stays so, and live_ships never rises and falls by at most one
\* for a shot that is accepted and not at all for one that is rejected.
C20_DamageIsKept ==
    [][ /\ Len(board'.ships) = Len(board.ships)
        /\ \A i \in 1 .. Len(board.ships) :
              /\ dots(board'.ships[i]) = dots(board.ships[i])
              /\ board.ships[i].wreck \subseteq board'.ships[i].wreck
              /\ ~isalive(board.ships[i]) => ~isalive(board'.ships[i])
        /\ live_ships(board') <= live_ships(board)
        /\ live_ships(board) - live_ships(board') <= 1
        /\ call'.exc # "none" => live_ships(board') = live_ships(board)
      ]_vars

\* a ship is sunk, another is alive, and a Dot of the sunk one has been
\* asked for again
C20_Witness ==
    /\ call.op = "shot"
    /\ call.exc = "DotAlreadyUsed"
    /\ live_ships(board) > 0
    /\ \E i \in 1 .. Len(board.ships) :
          /\ ~isalive(board.ships[i])
          /\ call.target \in board.ships[i].wreck

---------------------------------------------------------------------------
\* C19: the board random_board returns is never partly filled: it holds one
\* ship for every entry of the template, with the lengths in the order of
\* the template (ten ships, 4 3 3 2 2 2 1 1 1 1, for size 10), all inside
\* the board, with margins that are pairwise disjoint, with no Dot fired
\* upon and no wreck; and a construction makes at most (size+1)^2 attempts
\* to place a ship before it is complete or given up.
C19_RandomBoardComplete ==
    /\ rb.pc = "returned" =>
          /\ Len(board.ships) = Len(ships_template(board.size))
          /\ [i \in 1 .. Len(board.ships) |-> board.ships[i].size]
                = <<4, 3, 3, 2, 2, 2, 1, 1, 1, 1>>
          /\ \A i \in 1 .. Len(board.ships) :
                /\ board.ships[i].size = ships_template(board.size)[i]
                /\ \A d \in dots(board.ships[i]) : InBounds(d)
                /\ board.ships[i].wreck = {}
                /\ \A j \in 1 .. Len(board.ships) :
                      i # j => margins(board.ships[i], 1) \cap margins(board.ships[j], 1) = {}
          /\ board.used_dots = {}
    /\ rb.pc \in {"placing", "returned"} => rb.counter <= MaxAttempts(board.size)
    /\ rb.pc = "abandoned" => rb.counter - 1 = MaxAttempts(board.size)

\* a board returned by the last attempt the construction was allowed
C19_Witness ==
    /\ rb.pc = "returned"
    /\ rb.counter = MaxAttempts(board.size)
    /\ Len(board.ships) = 10

====
